---- MODULE Spec2Model ----
(***************************************************************************)
(* Model of src/src/rp_handler.py: the RunPod job handler that bridges a   *)
(* serverless job to a local ComfyUI backend.  One job is a sequential     *)
(* process; its position in handler() is pc[j].  The backend, the disk and *)
(* the artifact upload collaborator (rp_upload) are the environment: their *)
(* answers are drawn nondeterministically inside the action that asks.     *)
(***************************************************************************)
EXTENDS Integers, Sequences, FiniteSets, TLC

\* ------------------------------------------------------------------ bounds
MaxImages == 2
MaxPollRetries == 2
MaxProbeAttempts == 2
MaxNodes == 2
MaxEntries == 2

\* --------------------------------------------------------- configuration
\* rp_handler.py:15 (500 in the source, scaled down to MaxProbeAttempts)
COMFY_API_AVAILABLE_MAX_RETRIES == MaxProbeAttempts
\* rp_handler.py:24 (default of the environment variable)
REFRESH_WORKER == FALSE
\* rp_handler.py:216 (default of the environment variable), as path components
COMFY_OUTPUT_PATH == <<"/", "comfyui", "output">>

Jobs == {1, 2}
JobId(j) == IF j = 1 THEN "job1" ELSE "job2"
PromptIds == {"p1", "p2"}
OtherPrompt(p) == IF p = "p1" THEN "p2" ELSE "p1"

\* --------------------------------------------------------- generic helpers
SeqsUpTo(S, n) == UNION {[1..k -> S] : k \in 0..n}

\* ------------------------------------------------------------- job input
\* An element of the 'images' list.  t is its Python type; for a dict,
\* hasName/hasImage say whether the keys are present; for a str they say
\* whether the substrings "name"/"image" occur in it (what `in` tests on a
\* str); b64ok says whether base64.b64decode accepts image["image"].
ImgDict(n, ok) == [t |-> "dict", name |-> n, hasName |-> TRUE, hasImage |-> TRUE, b64ok |-> ok]
ImgNoImageKey == [t |-> "dict", name |-> "c", hasName |-> TRUE, hasImage |-> FALSE, b64ok |-> FALSE]
ImgStr == [t |-> "str", name |-> "", hasName |-> TRUE, hasImage |-> TRUE, b64ok |-> FALSE]
ImgInt == [t |-> "int", name |-> "", hasName |-> FALSE, hasImage |-> FALSE, b64ok |-> FALSE]

GoodImages == {ImgDict("a", TRUE), ImgDict("b", TRUE)}
ImageElems == GoodImages \cup {ImgDict("c", FALSE), ImgNoImageKey, ImgStr, ImgInt}

\* The 'images' value: absent key, JSON null, a non-list value, or a list.
ImagesAbsent == [t |-> "absent", items |-> <<>>]
ImagesNull == [t |-> "null", items |-> <<>>]
ImagesNotList == [t |-> "int", items |-> <<>>]
ImagesList(s) == [t |-> "list", items |-> s]
ImagesValues ==
    {ImagesAbsent, ImagesNull, ImagesNotList}
        \cup {ImagesList(s) : s \in SeqsUpTo(ImageElems, MaxImages)}

\* A decoded job input.  t: "none" (null), "int" (neither str nor dict),
\* "dict".  workflow: "absent", "null" or "wf" (an opaque workflow).
NoneInput == [t |-> "none", workflow |-> "absent", images |-> ImagesAbsent]
IntInput == [t |-> "int", workflow |-> "absent", images |-> ImagesAbsent]
DictInput(w, im) == [t |-> "dict", workflow |-> w, images |-> im]
DictInputs == {DictInput(w, im) : w \in {"absent", "null", "wf"}, im \in ImagesValues}

\* A raw job input: either a decoded value, or a str whose content is
\* invalid JSON (json = "invalid") or the JSON text of the value `val`.
Raw(isStr, js, v) == [str |-> isStr, json |-> js, val |-> v]
StrDictInputs ==
    {d \in DictInputs : d.images.t # "list" \/ Len(d.images.items) <= 1}
JobInputs ==
    {Raw(FALSE, "n/a", v) : v \in {NoneInput, IntInput} \cup DictInputs}
        \cup {Raw(TRUE, "invalid", NoneInput)}
        \cup {Raw(TRUE, "valid", v) : v \in {NoneInput, IntInput} \cup StrDictInputs}

\* json.loads on a str input: the decoded value, or JSONDecodeError
json_loads(raw) ==
    IF raw.json = "invalid" THEN [exc |-> TRUE, val |-> NoneInput]
    ELSE [exc |-> FALSE, val |-> raw.val]

\* --------------------------------------------------------- validate_input
\* Outcome of all("name" in image and "image" in image for image in images):
\* "true", "false", or "TypeError" (`in` applied to an int); the generator is
\* consumed in order and stops at the first False.
RECURSIVE AllHaveKeys(_)
AllHaveKeys(items) ==
    IF items = <<>> THEN "true"
    ELSE LET image == Head(items) IN
         IF image.t = "int" THEN "TypeError"
         ELSE IF image.hasName /\ image.hasImage THEN AllHaveKeys(Tail(items))
         ELSE "false"

Validated(w, im) == [kind |-> "ok", error |-> "", workflow |-> w, images |-> im]
Rejected(msg) == [kind |-> "error", error |-> msg, workflow |-> "absent", images |-> ImagesAbsent]
Raised(exc) == [kind |-> "raise", error |-> exc, workflow |-> "absent", images |-> ImagesAbsent]

\* validate_input after the optional JSON parse
validate_decoded(v) ==
    IF v.t = "none" THEN
        \* json.loads("null").get -> AttributeError; a None job_input is
        \* handled before the parse (see validate_input)
        Raised("AttributeError")
    ELSE IF v.t # "dict" THEN Raised("AttributeError")
    ELSE IF v.workflow # "wf" THEN Rejected("Missing 'workflow' parameter")
    ELSE IF v.images.t \in {"absent", "null"} THEN Validated(v.workflow, v.images)
    ELSE IF v.images.t # "list" THEN
        Rejected("'images' must be a list of objects with 'name' and 'image' keys")
    ELSE LET a == AllHaveKeys(v.images.items) IN
         IF a = "TypeError" THEN Raised("TypeError")
         ELSE IF a = "false" THEN
            Rejected("'images' must be a list of objects with 'name' and 'image' keys")
         ELSE Validated(v.workflow, v.images)

validate_input(raw) ==
    IF ~raw.str THEN
        IF raw.val.t = "none" THEN Rejected("Please provide input")
        ELSE validate_decoded(raw.val)
    ELSE LET p == json_loads(raw) IN
         IF p.exc THEN Rejected("Invalid JSON format in input")
         ELSE validate_decoded(p.val)

\* ------------------------------------------------------- paths and outputs
\* A path is the sequence of its components, "/" first when absolute; the
\* empty str is <<>>.  NoPath stands for Python's None.
NoPath == <<"<None>">>
IsAbs(p) == p # <<>> /\ Head(p) = "/"

\* os.path.join(a, b): an absolute second argument discards the first
path_join(a, b) == IF IsAbs(b) THEN b ELSE a \o b

\* f"{COMFY_OUTPUT_PATH}/{output_file}"; "root//x" names the file "root/x"
local_path_of(output_file) ==
    COMFY_OUTPUT_PATH \o (IF IsAbs(output_file) THEN Tail(output_file) ELSE output_file)

\* An entry of a node's 'images' or 'gifs' list
Entry(sub, fn, fp) == [subfolder |-> sub, filename |-> fn, fullpath |-> fp]
EntryA == Entry(<<>>, <<"a.png">>, <<"/", "comfyui", "output", "a.png">>)
EntryB == Entry(<<"s">>, <<"b.png">>, NoPath)
EntryC == Entry(<<"s">>, <<"/", "c.gif">>, <<"/", "tmp", "c.gif">>)

\* A node output: the 'images' and 'gifs' keys, each absent or a list
Node(hi, im, hg, gf) == [hasImages |-> hi, images |-> im, hasGifs |-> hg, gifs |-> gf]
ImageLists == SeqsUpTo({EntryA, EntryB}, MaxEntries)
GifLists == {<<EntryB>>, <<EntryC>>}
Nodes ==
    {Node(FALSE, <<>>, FALSE, <<>>)}
        \cup {Node(TRUE, im, FALSE, <<>>) : im \in ImageLists}
        \cup {Node(FALSE, <<>>, TRUE, gf) : gf \in GifLists}
        \cup {Node(TRUE, <<e>>, TRUE, gf) : e \in {EntryA, EntryB}, gf \in GifLists}

\* An outputs mapping, as the sequence of its values in iteration order
AllOutputs == SeqsUpTo(Nodes, MaxNodes)
\* The outputs a backend history record carries in the job-level model
SmallOutputs ==
    { <<Node(TRUE, <<EntryA>>, FALSE, <<>>)>>,
      <<Node(TRUE, <<EntryB>>, FALSE, <<>>)>>,
      <<Node(FALSE, <<>>, FALSE, <<>>)>>,
      <<Node(TRUE, <<EntryA>>, FALSE, <<>>), Node(FALSE, <<>>, TRUE, <<EntryC>>)>> }

\* --------------------------------------------------------- history records
\* The value stored under one prompt id in a /history answer
HAbsent == [present |-> FALSE, hasOutputs |-> FALSE, outputs |-> <<>>]
HNoOutputs == [present |-> TRUE, hasOutputs |-> FALSE, outputs |-> <<>>]
HOutputs(o) == [present |-> TRUE, hasOutputs |-> TRUE, outputs |-> o]
HEntriesSelf == {HAbsent, HNoOutputs, HOutputs(<<>>)} \cup {HOutputs(o) : o \in SmallOutputs}
HEntriesOther == {HAbsent, HOutputs(<<Node(TRUE, <<EntryC>>, FALSE, <<>>)>>)}

EmptyRecord == [p \in PromptIds |-> HAbsent]
\* A decoded /history answer: JSON null, a JSON list, or a JSON object
HistNull == [kind |-> "null", rec |-> EmptyRecord]
HistList == [kind |-> "list", rec |-> EmptyRecord]
HistRecord(r) == [kind |-> "record", rec |-> r]
NoHistory == [kind |-> "unset", rec |-> EmptyRecord]
\* urlopen or json.loads raised inside get_history
HistFault == [kind |-> "fault", rec |-> EmptyRecord]
\* the answers the backend may give to GET /history/{pid}
HistoryAnswers(pid) ==
    {HistFault, HistNull, HistList}
        \cup {HistRecord([p \in PromptIds |-> IF p = pid THEN s ELSE o]) :
                s \in HEntriesSelf, o \in HEntriesOther}

\* How the backend answered a history fetch for pid, in the words of the
\* data model: a fault, JSON null, or a record that is "ready" exactly when
\* it has an entry for pid whose outputs are present and non-empty.
answer_class(answer, pid) ==
    CASE answer.kind = "fault" -> "fault"
      [] answer.kind = "null" -> "null"
      [] answer.kind = "record" /\ answer.rec[pid].present
            /\ answer.rec[pid].hasOutputs /\ Len(answer.rec[pid].outputs) > 0 -> "ready"
      [] OTHER -> "not ready"

\* dict.get("outputs") of the entry: None when the key is missing
get_outputs(e) == IF e.hasOutputs THEN e.outputs ELSE <<>>
\* history_ready without the test of the outputs
history_ready_key_only(hist, pid) ==
    /\ hist.kind = "record"
    /\ hist.rec[pid].present

\* truth value of `prompt_id in history and history[prompt_id].get("outputs")`
\* for a list or an object (for JSON null the `in` raises TypeError)
history_ready(hist, pid) ==
    /\ hist.kind = "record"
    /\ hist.rec[pid].present
    /\ get_outputs(hist.rec[pid]) # <<>>

\* ------------------------------------------------------------------ state
VARIABLES
    active,                     \* the job invocations that are running
    COMFY_POLLING_MAX_RETRIES,  \* rp_handler.py:19, read from the environment
    job_input,                  \* job["input"] of each job
    pc,                         \* position of each job in handler()
    frame,                      \* the local variables of each handler() call
    result,                     \* what handler() returned
    raised,                     \* the exception that left handler(), "" if none
    log,                        \* the HTTP requests each job has issued, in order
    resolver_calls,             \* arguments of each process_output_files call
    collab_calls,               \* arguments of each rp_upload.upload_image call
    disk                        \* the paths that exist on the local disk

vars == <<active, COMFY_POLLING_MAX_RETRIES, job_input, pc, frame, result,
          raised, log, resolver_calls, collab_calls, disk>>

\* A result dict: `keys` are the keys it has; the other fields are their
\* values (meaningless for a key that is not in `keys`).
NoResult ==
    [keys |-> {}, error |-> "", status |-> "", message |-> <<>>,
     details |-> <<>>, refresh_worker |-> FALSE]
ErrorResult(msg) == [NoResult EXCEPT !.keys = {"error"}, !.error = msg]
UploadResult(st, msg, det) ==
    [NoResult EXCEPT !.keys = {"status", "message", "details"},
                     !.status = st, !.message = <<msg>>, !.details = det]
OutputResult(st, msg) ==
    [NoResult EXCEPT !.keys = {"status", "message"}, !.status = st, !.message = msg]
\* {**images_result, "refresh_worker": REFRESH_WORKER}
with_refresh_worker(r) ==
    [r EXCEPT !.keys = @ \cup {"refresh_worker"}, !.refresh_worker = REFRESH_WORKER]

\* The locals of handler() and of the functions it calls
InitFrame ==
    [ workflow |-> "absent",        \* handler: workflow
      images |-> ImagesAbsent,      \* handler: images
      i |-> 0,                      \* check_server: loop index
      reachable |-> "unset",        \* check_server's return value (discarded)
      probe_answer |-> "",          \* check_server: how the last GET ended
      idx |-> 0,                    \* upload_images: images already iterated
      responses |-> <<>>,           \* upload_images: responses
      upload_errors |-> <<>>,       \* upload_images: upload_errors
      upload_result |-> NoResult,   \* handler: upload_result
      prompt_id |-> "",             \* handler: prompt_id
      retries |-> 0,                \* handler: retries
      history |-> NoHistory,        \* handler: history
      outputs |-> <<>>,             \* process_output_files: outputs
      output_file |-> NoPath,       \* process_output_files: output_file
      full_path |-> NoPath,         \* process_output_files: full_path
      local_file_path |-> NoPath ]  \* process_output_files: local_file_path

Req(op, arg, cls) == [op |-> op, arg |-> arg, cls |-> cls]

InitCommon ==
    /\ COMFY_POLLING_MAX_RETRIES \in 0..MaxPollRetries
    /\ frame = [j \in Jobs |-> InitFrame]
    /\ result = [j \in Jobs |-> NoResult]
    /\ raised = [j \in Jobs |-> ""]
    /\ log = [j \in Jobs |-> <<>>]
    /\ resolver_calls = [j \in Jobs |-> <<>>]
    /\ collab_calls = [j \in Jobs |-> <<>>]
    /\ disk = {}

\* One job has been handed to handler() and has not run yet
Init ==
    /\ active = {1}
    /\ job_input \in [Jobs -> JobInputs]
    /\ \A j \in Jobs \ active : job_input[j] = Raw(FALSE, "n/a", NoneInput)
    /\ pc = [j \in Jobs |-> IF j \in active THEN "validate" ELSE "idle"]
    /\ InitCommon

\* handler() returns r
Return(j, r) ==
    /\ pc' = [pc EXCEPT ![j] = "done"]
    /\ result' = [result EXCEPT ![j] = r]
    /\ UNCHANGED raised

\* an exception leaves handler()
Raise(j, exc) ==
    /\ pc' = [pc EXCEPT ![j] = "fault"]
    /\ raised' = [raised EXCEPT ![j] = exc]
    /\ UNCHANGED result

\* handler() moves on to position p
Goto(j, p) ==
    /\ pc' = [pc EXCEPT ![j] = p]
    /\ UNCHANGED <<result, raised>>

Send(j, req) == log' = [log EXCEPT ![j] = Append(@, req)]

\* ------------------------------------------------------ handler: validation
\* rp_handler.py:305-314
Validate(j) ==
    /\ pc[j] = "validate"
    /\ LET v == validate_input(job_input[j]) IN
       /\ CASE v.kind = "raise" -> Raise(j, v.error) /\ UNCHANGED frame
            [] v.kind = "error" -> Return(j, ErrorResult(v.error)) /\ UNCHANGED frame
            [] OTHER ->
                 /\ Goto(j, "check_server")
                 /\ frame' = [frame EXCEPT ![j].workflow = v.workflow,
                                           ![j].images = v.images]
    /\ UNCHANGED <<active, COMFY_POLLING_MAX_RETRIES, job_input, log,
                   resolver_calls, collab_calls, disk>>

\* ---------------------------------------------------- check_server (69-100)
\* probe_succeeded taking any HTTP answer for success
probe_succeeded_any_status(answer) == answer # "RequestException"

\* 84-92: the attempt counts as success on status 200 only; any other
\* status, and a requests.RequestException, let the loop go on
probe_succeeded(answer) == answer = "200"

\* probe_continues with an off-by-one range
probe_continues_off_by_one(i, retries) == i <= retries

\* 82: `for i in range(retries)`
probe_continues(i, retries) == i < retries

\* AfterProbe treating an unreachable backend as fatal
AfterProbe_fatal(j, reachable) ==
    IF reachable THEN Goto(j, "upload_images")
    ELSE Return(j, ErrorResult("ComfyUI API is not reachable"))

\* handler, 317-324: the value check_server returns is discarded
AfterProbe(j, reachable) == Goto(j, "upload_images")

\* One iteration of the loop: a GET that answers 200, answers something
\* else, or raises requests.RequestException.
CheckServerAttempt(j) ==
    /\ pc[j] = "check_server"
    /\ probe_continues(frame[j].i, COMFY_API_AVAILABLE_MAX_RETRIES)
    /\ \E answer \in {"200", "503", "RequestException"} :
        /\ Send(j, Req("GET /", "", IF answer = "200" THEN "200" ELSE "fail"))
        /\ IF probe_succeeded(answer)
           THEN /\ frame' = [frame EXCEPT ![j].reachable = "true",
                                          ![j].probe_answer = answer]
                /\ AfterProbe(j, TRUE)
           ELSE /\ frame' = [frame EXCEPT ![j].i = @ + 1,
                                          ![j].probe_answer = answer]
                /\ Goto(j, "check_server")
    /\ UNCHANGED <<active, COMFY_POLLING_MAX_RETRIES, job_input,
                   resolver_calls, collab_calls, disk>>

\* The loop is exhausted: check_server returns False, which handler ignores
CheckServerGiveUp(j) ==
    /\ pc[j] = "check_server"
    /\ ~probe_continues(frame[j].i, COMFY_API_AVAILABLE_MAX_RETRIES)
    /\ frame' = [frame EXCEPT ![j].reachable = "false"]
    /\ AfterProbe(j, FALSE)
    /\ UNCHANGED <<active, COMFY_POLLING_MAX_RETRIES, job_input, log,
                   resolver_calls, collab_calls, disk>>

\* --------------------------------------------------- upload_images (103-153)
\* no_images testing `images is None` only
no_images_none_only(im) == im.t # "list"

\* no_images with the test inverted
no_images_inverted(im) == ~(im.t # "list" \/ im.items = <<>>)

\* `if not images`: None and the empty list are falsy
no_images(im) == im.t # "list" \/ im.items = <<>>

\* upload_outcome reporting the successes whatever failed
upload_outcome_details_swapped(responses, upload_errors) ==
    IF upload_errors # <<>>
    THEN UploadResult("error", "Some images failed to upload", responses)
    ELSE UploadResult("success", "All images uploaded successfully", responses)

\* upload_outcome testing the wrong list
upload_outcome_wrong_test(responses, upload_errors) ==
    IF responses = <<>>
    THEN UploadResult("error", "Some images failed to upload", upload_errors)
    ELSE UploadResult("success", "All images uploaded successfully", responses)

\* the dict upload_images returns once its loop is over (140-153)
upload_outcome(responses, upload_errors) ==
    IF upload_errors # <<>>
    THEN UploadResult("error", "Some images failed to upload", upload_errors)
    ELSE UploadResult("success", "All images uploaded successfully", responses)

\* AfterUpload that never looks at the status
AfterUpload_ignoring_status(j, outcome) == Goto(j, "queue_workflow")

\* handler, 324-327: an outcome with status "error" is returned as it is
AfterUpload(j, outcome) ==
    IF outcome.status = "error" THEN Return(j, outcome) ELSE Goto(j, "queue_workflow")

\* 114-115 with 324-327: nothing to upload
UploadNothing(j) ==
    /\ pc[j] = "upload_images"
    /\ no_images(frame[j].images)
    /\ LET outcome == UploadResult("success", "No images to upload", <<>>) IN
       /\ frame' = [frame EXCEPT ![j].upload_result = outcome]
       /\ AfterUpload(j, outcome)
    /\ UNCHANGED <<active, COMFY_POLLING_MAX_RETRIES, job_input, log,
                   resolver_calls, collab_calls, disk>>

\* b64decode_ok of a decoder that accepts any payload
b64decode_lenient(image) == TRUE

\* 125: base64.b64decode(image_data) returns (it raises binascii.Error otherwise)
b64decode_ok(image) == image.b64ok

\* 122-138: one iteration of the loop over images
UploadOne(j) ==
    /\ pc[j] = "upload_images"
    /\ ~no_images(frame[j].images)
    /\ frame[j].idx < Len(frame[j].images.items)
    /\ LET image == frame[j].images.items[frame[j].idx + 1] IN
       IF image.t # "dict" THEN
            \* image["name"] on a str
            /\ Raise(j, "TypeError")
            /\ UNCHANGED <<frame, log>>
       ELSE IF ~b64decode_ok(image) THEN
            \* base64.b64decode rejects the payload
            /\ Raise(j, "binascii.Error")
            /\ UNCHANGED <<frame, log>>
       ELSE \E answer \in {"200", "500", "RequestException"} :
            CASE answer = "RequestException" ->
                    /\ Send(j, Req("POST /upload/image", image.name, "fault"))
                    /\ Raise(j, "RequestException")
                    /\ UNCHANGED frame
              [] answer = "200" ->
                    /\ Send(j, Req("POST /upload/image", image.name, "200"))
                    /\ frame' = [frame EXCEPT
                          ![j].idx = @ + 1,
                          ![j].responses = Append(@, <<"Successfully uploaded", image.name>>)]
                    /\ Goto(j, "upload_images")
              [] OTHER ->
                    /\ Send(j, Req("POST /upload/image", image.name, "500"))
                    /\ frame' = [frame EXCEPT
                          ![j].idx = @ + 1,
                          ![j].upload_errors = Append(@, <<"Error uploading", image.name>>)]
                    /\ Goto(j, "upload_images")
    /\ UNCHANGED <<active, COMFY_POLLING_MAX_RETRIES, job_input,
                   resolver_calls, collab_calls, disk>>

\* 140-153 with 324-327: the loop is over
UploadDone(j) ==
    /\ pc[j] = "upload_images"
    /\ ~no_images(frame[j].images)
    /\ frame[j].idx >= Len(frame[j].images.items)
    /\ LET outcome == upload_outcome(frame[j].responses, frame[j].upload_errors) IN
       /\ frame' = [frame EXCEPT ![j].upload_result = outcome]
       /\ AfterUpload(j, outcome)
    /\ UNCHANGED <<active, COMFY_POLLING_MAX_RETRIES, job_input, log,
                   resolver_calls, collab_calls, disk>>

\* ------------------------------------- queue_workflow (156-171), 329-335
\* queued_prompt_id falling back to a default id when the key is missing
queued_prompt_id_with_default(answer) ==
    IF answer \in PromptIds THEN answer
    ELSE IF answer = "no prompt_id" THEN "p1"
    ELSE ""

\* 331-332: queued_workflow["prompt_id"], or "" when the call or the key
\* access raised
queued_prompt_id(answer) == IF answer \in PromptIds THEN answer ELSE ""

\* The POST raises (transport fault or undecodable body), or decodes to an
\* object without 'prompt_id' (KeyError), or carries a prompt id.  The log
\* keeps the prompt id the backend returned, "fail" if it returned none.
QueueWorkflow(j) ==
    /\ pc[j] = "queue_workflow"
    /\ \E answer \in {"URLError", "no prompt_id"} \cup PromptIds :
        /\ Send(j, Req("POST /prompt", frame[j].workflow,
                       IF answer \in PromptIds THEN answer ELSE "fail"))
        /\ IF queued_prompt_id(answer) # ""
           THEN /\ frame' = [frame EXCEPT ![j].prompt_id = queued_prompt_id(answer),
                                          ![j].retries = 0]
                /\ Goto(j, "poll")
           ELSE /\ Return(j, ErrorResult("Error queuing workflow"))
                /\ UNCHANGED frame
    /\ UNCHANGED <<active, COMFY_POLLING_MAX_RETRIES, job_input,
                   resolver_calls, collab_calls, disk>>

\* ------------------------------------------------ polling, handler 339-357
\* outputs_argument reading the first entry of the record, whatever its key
outputs_argument_first_key(hist, pid) ==
    get_outputs(hist.rec[IF hist.rec["p1"].present THEN "p1" ELSE "p2"])

\* 357: history[prompt_id].get("outputs"), the argument of process_output_files
outputs_argument(hist, pid) == get_outputs(hist.rec[pid])

\* poll_continues with an off-by-one loop condition
poll_continues_off_by_one(retries, max_retries) == retries <= max_retries

\* 341: the condition of the while loop
poll_continues(retries, max_retries) == retries < max_retries

\* poll_branch with a fetch fault swallowed and retried like "not ready"
poll_branch_retry_on_fault(answer, pid) ==
    IF answer.kind = "null" THEN "except"
    ELSE IF answer.kind = "fault" THEN "retry"
    ELSE IF history_ready(answer, pid) THEN "break"
    ELSE "retry"

\* 342-350 with 353: what one fetched answer makes the loop do: "except"
\* (the fetch, the decode or the readiness test raised), "break" or "retry"
poll_branch(answer, pid) ==
    IF answer.kind \in {"fault", "null"} THEN "except"
    ELSE IF history_ready(answer, pid) THEN "break"
    ELSE "retry"

\* One iteration of the while loop: get_history (174-185) and the test.
\* The log keeps how the backend answered (answer_class), not what the
\* handler made of it.
PollHistory(j) ==
    /\ pc[j] = "poll"
    /\ poll_continues(frame[j].retries, COMFY_POLLING_MAX_RETRIES)
    /\ LET pid == frame[j].prompt_id IN
       \E answer \in HistoryAnswers(pid) :
          /\ Send(j, Req("GET /history", pid, answer_class(answer, pid)))
          /\ CASE poll_branch(answer, pid) = "except" ->
                    \* get_history did not return when it raised: history
                    \* keeps its value
                    /\ frame' = [frame EXCEPT
                          ![j].history = IF answer.kind = "fault" THEN @ ELSE answer]
                    /\ Return(j, ErrorResult("Error waiting for image generation"))
                    /\ UNCHANGED resolver_calls
               [] poll_branch(answer, pid) = "break" ->
                    \* 357: process_output_files is entered
                    /\ frame' = [frame EXCEPT
                          ![j].history = answer,
                          ![j].outputs = outputs_argument(answer, pid)]
                    /\ resolver_calls' = [resolver_calls EXCEPT
                          ![j] = Append(@, [outputs |-> outputs_argument(answer, pid),
                                            job_id |-> JobId(j)])]
                    /\ Goto(j, "scan_outputs")
               [] OTHER ->
                    /\ frame' = [frame EXCEPT ![j].history = answer, ![j].retries = @ + 1]
                    /\ Goto(j, "poll")
                    /\ UNCHANGED resolver_calls
    /\ UNCHANGED <<active, COMFY_POLLING_MAX_RETRIES, job_input, collab_calls, disk>>

\* 351-352: the loop condition failed, the else clause of the while runs
PollTimeout(j) ==
    /\ pc[j] = "poll"
    /\ ~poll_continues(frame[j].retries, COMFY_POLLING_MAX_RETRIES)
    /\ Return(j, ErrorResult("Max retries reached while waiting for image generation"))
    /\ UNCHANGED <<active, COMFY_POLLING_MAX_RETRIES, job_input, frame, log,
                   resolver_calls, collab_calls, disk>>

\* ------------------------------------------ process_output_files (203-289)
\* The pair (output_file, full_path) the scan carries along
Candidate(of, fp) == [output_file |-> of, full_path |-> fp]
NoCandidate == Candidate(NoPath, NoPath)

\* take_entry keeping the previous full_path when the entry reports none
take_entry_keep_fullpath(cand, e) ==
    Candidate(path_join(e.subfolder, e.filename),
              IF e.fullpath = NoPath THEN cand.full_path ELSE e.fullpath)

\* 232-233 and 239-240: one entry overwrites both variables
take_entry(cand, e) ==
    Candidate(path_join(e.subfolder, e.filename), e.fullpath)

RECURSIVE scan_entries(_, _)
\* the inner for loops (230-233, 237-240)
scan_entries(entries, cand) ==
    IF entries = <<>> THEN cand
    ELSE scan_entries(Tail(entries), take_entry(cand, Head(entries)))

\* 228-240: one node output, images before gifs
scan_node(node, cand) ==
    LET c1 == IF node.hasImages THEN scan_entries(node.images, cand) ELSE cand
    IN  IF node.hasGifs THEN scan_entries(node.gifs, c1) ELSE c1

RECURSIVE scan_nodes(_, _)
\* 225-240: the loop over outputs.items()
scan_nodes(outputs, cand) ==
    IF outputs = <<>> THEN cand
    ELSE scan_nodes(Tail(outputs), scan_node(Head(outputs), cand))

\* truth value of a str-or-None
truthy(p) == p # NoPath /\ p # <<>>
\* os.path.exists on a str
exists(p, d) == p \in d

\* 251-260: the path the resolver settles on
resolve_local_path(cand, d) ==
    LET constructed == local_path_of(cand.output_file) IN
    IF truthy(cand.full_path) /\ exists(cand.full_path, d) THEN cand.full_path
    ELSE IF ~exists(constructed, d) THEN cand.full_path
    ELSE constructed

\* the paths whose existence the resolver may ask about
candidate_paths(cand) ==
    (IF cand.output_file = NoPath THEN {} ELSE {local_path_of(cand.output_file)})
        \cup (IF truthy(cand.full_path) THEN {cand.full_path} ELSE {})

\* `if output_file is None` without the test: the resolver always goes on
no_candidate_unchecked(cand) == FALSE

\* 244: `if output_file is None`, no entry was met by the scan
no_candidate(cand) == cand.output_file = NoPath

\* 221-242: the scan.  The backend has written (or failed to write) the
\* candidate's files by now: which of them exist is fixed here and read by
\* the next steps; the other paths of the disk stay as they are.
ScanOutputs(j) ==
    /\ pc[j] = "scan_outputs"
    /\ LET cand == scan_nodes(frame[j].outputs, NoCandidate) IN
       /\ frame' = [frame EXCEPT ![j].output_file = cand.output_file,
                                 ![j].full_path = cand.full_path]
       /\ \E written \in SUBSET candidate_paths(cand) :
             disk' = (disk \ candidate_paths(cand)) \cup written
    /\ Goto(j, "resolve_path")
    /\ UNCHANGED <<active, COMFY_POLLING_MAX_RETRIES, job_input, log,
                   resolver_calls, collab_calls>>

\* 244-263: no candidate, or the choice between the two paths; then
\* os.path.dirname(local_file_path), which raises TypeError on None
ResolvePath(j) ==
    /\ pc[j] = "resolve_path"
    /\ LET cand == Candidate(frame[j].output_file, frame[j].full_path) IN
       IF no_candidate(cand) THEN
            /\ Return(j, with_refresh_worker(
                   OutputResult("error", <<"No output file found in the generation results">>)))
            /\ UNCHANGED frame
       ELSE LET path == resolve_local_path(cand, disk) IN
            /\ frame' = [frame EXCEPT ![j].local_file_path = path]
            /\ IF path = NoPath THEN Raise(j, "TypeError") ELSE Goto(j, "emit")
    /\ UNCHANGED <<active, COMFY_POLLING_MAX_RETRIES, job_input, log,
                   resolver_calls, collab_calls, disk>>

\* 271-289 with 359-361: upload the file through rp_upload, or report that
\* it is missing
EmitOutput(j) ==
    /\ pc[j] = "emit"
    /\ LET path == frame[j].local_file_path IN
       IF exists(path, disk) THEN
            /\ collab_calls' = [collab_calls EXCEPT
                  ![j] = Append(@, [job_id |-> JobId(j), path |-> path])]
            /\ \/ Return(j, with_refresh_worker(
                      OutputResult("success", <<"https://bucket", JobId(j)>> \o path)))
               \/ Raise(j, "UploadError")
       ELSE /\ Return(j, with_refresh_worker(
                   OutputResult("error",
                       <<"the file does not exist in the specified output folder">> \o path)))
            /\ UNCHANGED collab_calls
    /\ UNCHANGED <<active, COMFY_POLLING_MAX_RETRIES, job_input, frame, log,
                   resolver_calls, disk>>

\* ------------------------------------------------------------ specification
Step(j) ==
    \/ Validate(j)
    \/ CheckServerAttempt(j)
    \/ CheckServerGiveUp(j)
    \/ UploadNothing(j)
    \/ UploadOne(j)
    \/ UploadDone(j)
    \/ QueueWorkflow(j)
    \/ PollHistory(j)
    \/ PollTimeout(j)
    \/ ScanOutputs(j)
    \/ ResolvePath(j)
    \/ EmitOutput(j)

Next == \E j \in active : Step(j)

Spec == Init /\ [][Next]_vars

\* handler runs on: a call it makes returns or raises, and the next statement
\* is then executed
SpecFair == Spec /\ WF_vars(Next)

\* Two invocations of handler() run concurrently against the same backend,
\* one job without images and one with an image
ConcInputs ==
    [j \in Jobs |->
        IF j = 1 THEN Raw(FALSE, "n/a", DictInput("wf", ImagesAbsent))
        ELSE Raw(FALSE, "n/a", DictInput("wf", ImagesList(<<ImgDict("a", TRUE)>>)))]
InitConc ==
    /\ active = Jobs
    /\ job_input = ConcInputs
    /\ pc = [j \in Jobs |-> "validate"]
    /\ InitCommon
    /\ COMFY_POLLING_MAX_RETRIES = 1

SpecConc == InitConc /\ [][Next]_vars

\* process_output_files called on any outputs mapping of the node shapes above
InitResolver ==
    /\ active = {1}
    /\ job_input = [j \in Jobs |-> Raw(FALSE, "n/a", NoneInput)]
    /\ pc = [j \in Jobs |-> IF j \in active THEN "scan_outputs" ELSE "idle"]
    /\ COMFY_POLLING_MAX_RETRIES = MaxPollRetries
    /\ \E o \in AllOutputs :
        /\ frame = [j \in Jobs |-> IF j \in active
                                   THEN [InitFrame EXCEPT !.outputs = o]
                                   ELSE InitFrame]
        /\ resolver_calls = [j \in Jobs |-> IF j \in active
                                   THEN <<[outputs |-> o, job_id |-> JobId(j)]>>
                                   ELSE <<>>]
    /\ result = [j \in Jobs |-> NoResult]
    /\ raised = [j \in Jobs |-> ""]
    /\ log = [j \in Jobs |-> <<>>]
    /\ collab_calls = [j \in Jobs |-> <<>>]
    /\ disk = {}

NextResolver ==
    \E j \in active : ScanOutputs(j) \/ ResolvePath(j) \/ EmitOutput(j)

SpecResolver == InitResolver /\ [][NextResolver]_vars

\* ------------------------------------------------------------------ claims
\* the requests of one kind in a job's log
Requests(j, op) == SelectSeq(log[j], LAMBDA r : r.op = op)
HistoryFetches(j) == Requests(j, "GET /history")
ImageUploads(j) == Requests(j, "POST /upload/image")
Last(s) == s[Len(s)]

\* The input is one the validator is to reject: null, a str that is not
\* JSON, a missing or null workflow, or an 'images' value (present, not
\* null) that is not a list of objects having both keys.
IsObjectWithKeys(image) == image.t = "dict" /\ image.hasName /\ image.hasImage
MustBeRejected(raw) ==
    \/ ~raw.str /\ raw.val.t = "none"
    \/ raw.str /\ raw.json = "invalid"
    \/ /\ raw.json # "invalid"
       /\ raw.val.t = "dict"
       /\ \/ raw.val.workflow \in {"absent", "null"}
          \/ /\ raw.val.images.t \notin {"absent", "null"}
             /\ \/ raw.val.images.t # "list"
                \/ \E k \in DOMAIN raw.val.images.items :
                      ~IsObjectWithKeys(raw.val.images.items[k])

\* C1: a job whose input validation is to reject issues no HTTP request and,
\* once handler has acted, has returned an {error: ...} result.
C1_RejectedInputNoHttp ==
    \A j \in active :
        MustBeRejected(job_input[j]) =>
            /\ log[j] = <<>>
            /\ pc[j] # "validate" => pc[j] = "done" /\ result[j].keys = {"error"}

TimeoutResult == ErrorResult("Max retries reached while waiting for image generation")

\* C2: when every history fetch answers "not ready", the timeout error is
\* returned after exactly COMFY_POLLING_MAX_RETRIES fetches: a job never
\* fetches more often than that, a timeout result means exactly that many
\* fetches were made and all were not ready, and after that many not-ready
\* answers the only thing the poller can do is time out.
C2_TimeoutAfterExactlyMaxRetries ==
    \A j \in active :
        LET fetches == HistoryFetches(j)
            notReady == SelectSeq(fetches, LAMBDA r : r.cls = "not ready")
        IN  /\ Len(fetches) <= COMFY_POLLING_MAX_RETRIES
            /\ result[j] = TimeoutResult =>
                  /\ pc[j] = "done"
                  /\ Len(fetches) = COMFY_POLLING_MAX_RETRIES
                  /\ Len(notReady) = COMFY_POLLING_MAX_RETRIES
            /\ (pc[j] = "poll" /\ Len(notReady) = COMFY_POLLING_MAX_RETRIES) =>
                  ENABLED PollTimeout(j) /\ ~ENABLED PollHistory(j)
            /\ (pc[j] = "poll" /\ Len(notReady) < COMFY_POLLING_MAX_RETRIES) =>
                  ~ENABLED PollTimeout(j)

C2_Witness ==
    \E j \in active :
        /\ result[j] = TimeoutResult
        /\ COMFY_POLLING_MAX_RETRIES = MaxPollRetries
        /\ Len(HistoryFetches(j)) = MaxPollRetries

\* C3: a history fetch that raised is the last request of the job: the job
\* is over with {error: "Error waiting for image generation..."}, and neither
\* the output resolver nor the upload collaborator was called.
C3_PollingFaultEndsJob ==
    \A j \in active :
        \A k \in DOMAIN log[j] :
            (log[j][k].op = "GET /history" /\ log[j][k].cls = "fault") =>
                /\ k = Len(log[j])
                /\ pc[j] = "done"
                /\ result[j] = ErrorResult("Error waiting for image generation")
                /\ resolver_calls[j] = <<>>
                /\ collab_calls[j] = <<>>

C3_Witness ==
    \E j \in active :
        /\ Len(HistoryFetches(j)) >= 2
        /\ Last(log[j]).cls = "fault"
        /\ frame[j].retries < COMFY_POLLING_MAX_RETRIES
        /\ pc[j] = "done"

InResolver(j) == pc[j] \in {"scan_outputs", "resolve_path", "emit"}

\* C4: the poller is left for the resolver only on a fetched record that has
\* the job's prompt_id with present, non-empty outputs; the resolver is called
\* once, with exactly those outputs of the record fetched last; and after an
\* answer that is not ready the job is still polling or has timed out.
C4_DoneOnlyOnReadyRecord ==
    \A j \in active :
        LET pid == frame[j].prompt_id
            fetches == HistoryFetches(j)
        IN  /\ (InResolver(j) \/ resolver_calls[j] # <<>>) =>
                  /\ fetches # <<>>
                  /\ Last(log[j]) = Req("GET /history", pid, "ready")
                  /\ frame[j].history.kind = "record"
                  /\ frame[j].history.rec[pid].present
                  /\ frame[j].history.rec[pid].hasOutputs
                  /\ frame[j].history.rec[pid].outputs # <<>>
                  /\ resolver_calls[j] =
                        <<[outputs |-> frame[j].history.rec[pid].outputs,
                           job_id |-> JobId(j)]>>
            /\ \A k \in DOMAIN fetches :
                  /\ fetches[k].arg = pid
                  /\ fetches[k].cls = "ready" => k = Len(fetches)
            /\ (fetches # <<>> /\ Last(fetches).cls = "not ready") =>
                  /\ resolver_calls[j] = <<>>
                  /\ pc[j] = "poll" \/ result[j] = TimeoutResult
                  /\ frame[j].retries = Len(fetches)

C4_Witness ==
    \E j \in active :
        /\ pc[j] = "scan_outputs"
        /\ Len(HistoryFetches(j)) >= 2
        /\ frame[j].history.rec[OtherPrompt(frame[j].prompt_id)].present
        /\ resolver_calls[j] # <<>>

\* the decoded input of a job whose input passed validation
DecodedInput(j) == job_input[j].val
UploadReturned(j) == frame[j].upload_result # NoResult

\* C5: for a non-empty images list whose uploads were all carried out,
\* upload_images returns "success" with one detail per image when every
\* upload answered 200, and "error" with one detail per failed upload, in
\* upload order, when at least one did not.
C5_UploadOutcome ==
    \A j \in active :
        (UploadReturned(j) /\ ~no_images(frame[j].images)) =>
            LET ups == ImageUploads(j)
                failed == SelectSeq(ups, LAMBDA r : r.cls # "200")
                outcome == frame[j].upload_result
            IN  /\ Len(ups) = Len(DecodedInput(j).images.items)
                /\ failed = <<>> =>
                      /\ outcome.status = "success"
                      /\ Len(outcome.details) = Len(DecodedInput(j).images.items)
                /\ failed # <<>> =>
                      /\ outcome.status = "error"
                      /\ Len(outcome.details) = Len(failed)
                      /\ \A k \in DOMAIN failed :
                            outcome.details[k] = <<"Error uploading", failed[k].arg>>

C5_Witness ==
    \E j \in active :
        /\ UploadReturned(j)
        /\ Len(ImageUploads(j)) = 2
        /\ ImageUploads(j)[1].cls = "500"
        /\ ImageUploads(j)[2].cls = "200"
        /\ frame[j].upload_result.status = "error"

\* the images value of the input is absent, null or the empty list
InputHasNoImages(j) ==
    \/ DecodedInput(j).images.t \in {"absent", "null"}
    \/ DecodedInput(j).images.t = "list" /\ DecodedInput(j).images.items = <<>>

\* C6: with absent, null or empty images, upload_images returns the no-op
\* success outcome with empty details, no image upload request is ever
\* issued, and the job goes on to workflow submission.
C6_NoImagesNoOp ==
    \A j \in active :
        (InputHasNoImages(j) /\ pc[j] \notin {"validate", "check_server"}
            /\ validate_input(job_input[j]).kind = "ok") =>
            /\ ImageUploads(j) = <<>>
            /\ pc[j] # "upload_images" =>
                  /\ frame[j].upload_result =
                        UploadResult("success", "No images to upload", <<>>)
                  /\ pc[j] = "queue_workflow" \/ Requests(j, "POST /prompt") # <<>>

C6_Witness ==
    \E j \in active :
        /\ DecodedInput(j).images.t = "list"
        /\ DecodedInput(j).images.items = <<>>
        /\ pc[j] = "queue_workflow"
        /\ UploadReturned(j)

\* C7: when the upload outcome has status "error", handler has returned it
\* at once: no workflow submission, no history fetch, no resolver call and no
\* collaborator call belong to that job.
C7_UploadErrorShortCircuits ==
    \A j \in active :
        (\/ frame[j].upload_result.status = "error"
         \/ /\ pc[j] # "upload_images"
            /\ raised[j] = ""
            /\ \E k \in DOMAIN log[j] :
                  log[j][k].op = "POST /upload/image" /\ log[j][k].cls = "500") =>
            /\ pc[j] = "done"
            /\ result[j] = frame[j].upload_result
            /\ result[j].status = "error"
            /\ Requests(j, "POST /prompt") = <<>>
            /\ HistoryFetches(j) = <<>>
            /\ resolver_calls[j] = <<>>
            /\ collab_calls[j] = <<>>

C7_Witness ==
    \E j \in active :
        /\ frame[j].upload_result.status = "error"
        /\ pc[j] = "done"
        /\ Len(ImageUploads(j)) = 2

IsErrorResult(r) ==
    \/ r.keys = {"error"}
    \/ "status" \in r.keys /\ r.status = "error"
IsSuccessResult(r) == "status" \in r.keys /\ r.status = "success"

\* An error has been detected in the job: validation rejected the input, an
\* image upload, the submission or a history fetch failed, polling timed
\* out, or output resolution failed.
ErrorDetected(j) ==
    \/ pc[j] = "done" /\ IsErrorResult(result[j])
    \/ \E k \in DOMAIN log[j] :
          /\ log[j][k].op \in {"POST /upload/image", "POST /prompt", "GET /history"}
          /\ log[j][k].cls \in {"500", "fail", "fault", "null"}

\* the step uploads the next image of the batch
UploadsNextImage(j) ==
    /\ pc[j] = "upload_images"
    /\ Len(ImageUploads(j)) < Len(frame[j].images.items)
    /\ \E cls \in {"200", "500", "fault"} :
          log'[j] = Append(log[j],
              Req("POST /upload/image",
                  frame[j].images.items[Len(ImageUploads(j)) + 1].name, cls))

\* C8 as stated: once an error has been detected, the job issues no further
\* backend request and its result is an error.
C8_FirstErrorStopsAllRequests ==
    [][\A j \in active :
          ErrorDetected(j) =>
              /\ log'[j] = log[j]
              /\ pc'[j] = "done" => IsErrorResult(result'[j])]_vars

\* C8, amended: once an error has been detected, the only backend requests
\* the job still issues are the uploads of the remaining images of the batch
\* in which an upload failed; outside that loop the job is over at the moment
\* of detection, and a result it returns is an error, never a success.
C8_FirstErrorEndsJobAfterBatch ==
    [][\A j \in active :
          /\ ErrorDetected(j) =>
                /\ log'[j] = log[j] \/ UploadsNextImage(j)
                /\ pc'[j] = "done" => IsErrorResult(result'[j])
                /\ ~IsSuccessResult(result'[j])
          /\ ErrorDetected(j)' => pc'[j] \in {"done", "fault", "upload_images"}]_vars

C8_Witness ==
    \E j \in active :
        /\ Len(ImageUploads(j)) = 2
        /\ ImageUploads(j)[1].cls = "500"
        /\ pc[j] = "done"
        /\ IsErrorResult(result[j])

\* the images/gifs entries of an outputs mapping in the order the scan
\* meets them: node by node, a node's images before its gifs
RECURSIVE EntriesInOrder(_)
EntriesInOrder(outputs) ==
    IF outputs = <<>> THEN <<>>
    ELSE (IF Head(outputs).hasImages THEN Head(outputs).images ELSE <<>>)
            \o (IF Head(outputs).hasGifs THEN Head(outputs).gifs ELSE <<>>)
            \o EntriesInOrder(Tail(outputs))

ScanIsOver(j) == resolver_calls[j] # <<>> /\ pc[j] # "scan_outputs"

\* C9: after the scan the candidate is exactly the last images/gifs entry in
\* iteration order: output_file is built from that entry's subfolder and
\* filename and full_path is that same entry's fullpath (None if it has
\* none); with no entry at all there is no candidate.
C9_LastEntryWins ==
    \A j \in active :
        ScanIsOver(j) =>
            LET es == EntriesInOrder(Last(resolver_calls[j]).outputs) IN
            IF es = <<>>
            THEN frame[j].output_file = NoPath /\ frame[j].full_path = NoPath
            ELSE /\ frame[j].output_file = path_join(Last(es).subfolder, Last(es).filename)
                 /\ frame[j].full_path = Last(es).fullpath

C9_Witness ==
    \E j \in active :
        /\ pc[j] = "resolve_path"
        /\ Last(resolver_calls[j]).outputs =
              <<Node(TRUE, <<EntryA>>, TRUE, <<EntryC>>), Node(TRUE, <<EntryA, EntryB>>, FALSE, <<>>)>>
        /\ frame[j].output_file = <<"s", "b.png">>
        /\ frame[j].full_path = NoPath

\* C10: once the resolver has chosen its path: if the reported full path
\* exists it is the full path; if it does not and the constructed path
\* exists it is the constructed path; if neither exists it is the full path
\* and the resolver goes on to report that the file does not exist.
C10_PathResolutionOrder ==
    \A j \in active :
        (ScanIsOver(j) /\ pc[j] # "resolve_path" /\ frame[j].output_file # NoPath) =>
            LET fp == frame[j].full_path
                constructed == local_path_of(frame[j].output_file)
                fullExists == fp # NoPath /\ fp \in disk
                constructedExists == constructed \in disk
            IN  /\ fullExists => frame[j].local_file_path = fp
                /\ (~fullExists /\ constructedExists) =>
                      frame[j].local_file_path = constructed
                /\ (~fullExists /\ ~constructedExists) =>
                      /\ frame[j].local_file_path = fp
                      /\ pc[j] \in {"emit", "done"}
                      /\ pc[j] = "done" =>
                            /\ result[j].status = "error"
                            /\ result[j].message =
                                  <<"the file does not exist in the specified output folder">> \o fp

PathChosen(j) == ScanIsOver(j) /\ pc[j] # "resolve_path" /\ frame[j].output_file # NoPath

\* C11: for every candidate entry, with or without a 'fullpath', the
\* resolver raises no fault of its own; it calls the upload collaborator
\* exactly when the resolved path exists on disk, then returning "success"
\* with the collaborator's reference, and otherwise returns the error payload
\* naming the missing file without calling the collaborator.
C11_UploadIffResolvedPathExists ==
    \A j \in active :
        PathChosen(j) =>
            LET path == frame[j].local_file_path IN
            /\ raised[j] \in {"", "UploadError"}
            /\ path # NoPath
            /\ pc[j] = "done" =>
                  IF path \in disk
                  THEN /\ collab_calls[j] = <<[job_id |-> JobId(j), path |-> path]>>
                       /\ result[j].status = "success"
                       /\ result[j].message = <<"https://bucket", JobId(j)>> \o path
                  ELSE /\ collab_calls[j] = <<>>
                       /\ result[j].status = "error"
                       /\ result[j].message =
                             <<"the file does not exist in the specified output folder">> \o path
            /\ pc[j] = "fault" => collab_calls[j] # <<>>

\* C12: when the scan met no images/gifs entry, process_output_files returns
\* the error payload "No output file found in the generation results": it
\* raises nothing, resolves no path and never calls the upload collaborator.
C12_NoCandidateIsErrorPayload ==
    \A j \in active :
        (ScanIsOver(j) /\ EntriesInOrder(Last(resolver_calls[j]).outputs) = <<>>) =>
            /\ pc[j] \in {"resolve_path", "done"}
            /\ raised[j] = ""
            /\ frame[j].local_file_path = NoPath
            /\ collab_calls[j] = <<>>
            /\ pc[j] = "done" =>
                  /\ result[j].status = "error"
                  /\ result[j].message = <<"No output file found in the generation results">>

C12_Witness ==
    \E j \in active :
        /\ pc[j] = "done"
        /\ Len(Last(resolver_calls[j]).outputs) = 2
        /\ EntriesInOrder(Last(resolver_calls[j]).outputs) = <<>>
        /\ result[j].status = "error"

\* C13: every result handler returns is either {error} or {status, message,
\* refresh_worker} with status "success" or "error"; in particular every
\* result that carries a status carries the refresh_worker flag.
C13_ResultShapes ==
    \A j \in active :
        pc[j] = "done" =>
            \/ result[j].keys = {"error"}
            \/ /\ result[j].keys = {"status", "message", "refresh_worker"}
               /\ result[j].status \in {"success", "error"}

Probes(j) == Requests(j, "GET /")

\* C14: check_server returns True on the first GET that answers 200 and
\* issues no GET after it; it returns False only after exactly `retries` GETs
\* of which none answered 200; a GET that raised or answered another status
\* leaves the loop running and raises nothing.
C14_CheckServerAttempts ==
    \A j \in active :
        LET probes == Probes(j)
            retries == COMFY_API_AVAILABLE_MAX_RETRIES
        IN  /\ Len(probes) <= retries
            /\ \A k \in DOMAIN probes : probes[k].cls = "200" => k = Len(probes)
            /\ frame[j].reachable = "true" <=>
                  (probes # <<>> /\ Last(probes).cls = "200")
            /\ frame[j].reachable = "true" => frame[j].probe_answer = "200"
            /\ frame[j].reachable = "false" =>
                  /\ Len(probes) = retries
                  /\ \A k \in DOMAIN probes : probes[k].cls # "200"
            /\ (probes # <<>> /\ frame[j].reachable = "unset") =>
                  /\ pc[j] = "check_server"
                  /\ raised[j] = ""
                  /\ frame[j].probe_answer \in {"503", "RequestException"}
                  /\ Len(probes) < retries => ENABLED CheckServerAttempt(j)
            /\ pc[j] = "check_server" => frame[j].reachable = "unset"

C14_Witness ==
    \E j \in active :
        /\ frame[j].reachable = "true"
        /\ Len(Probes(j)) = MaxProbeAttempts
        /\ Probes(j)[1].cls = "fail"
        /\ pc[j] = "upload_images"

Submissions(j) == Requests(j, "POST /prompt")

\* C15: a submission that failed (the POST raised, or its answer has no
\* 'prompt_id') is the last request of the job: handler has returned
\* {error: "Error queuing workflow..."}, fetched no history and submitted
\* the workflow only that once.
C15_SubmissionFailureEndsJob ==
    \A j \in active :
        \A k \in DOMAIN log[j] :
            (log[j][k].op = "POST /prompt" /\ log[j][k].cls = "fail") =>
                /\ k = Len(log[j])
                /\ Len(Submissions(j)) = 1
                /\ HistoryFetches(j) = <<>>
                /\ pc[j] = "done"
                /\ result[j] = ErrorResult("Error queuing workflow")
                /\ resolver_calls[j] = <<>>
                /\ collab_calls[j] = <<>>

C15_Witness ==
    \E j \in active :
        /\ pc[j] = "done"
        /\ Submissions(j) # <<>>
        /\ Last(log[j]) = Req("POST /prompt", "wf", "fail")
        /\ ImageUploads(j) # <<>>

\* the errors handler reports for the stages that follow the probe
DownstreamErrors ==
    {"Error queuing workflow", "Error waiting for image generation",
     "Max retries reached while waiting for image generation"}

\* C16: after check_server has given up and returned False the job is at
\* the image upload, with no result and the uploader able to run, as after a
\* successful probe; a result the job returns later is one of the results of
\* the later stages and says nothing about the probe.
C16_FailedProbeNotFatal ==
    \A j \in active :
        frame[j].reachable = "false" =>
            /\ pc[j] \notin {"validate", "check_server"}
            /\ (~UploadReturned(j) /\ raised[j] = "") =>
                  /\ pc[j] = "upload_images"
                  /\ result[j] = NoResult
                  /\ ENABLED (UploadNothing(j) \/ UploadOne(j) \/ UploadDone(j))
            /\ pc[j] = "done" =>
                  /\ UploadReturned(j)
                  /\ \/ result[j] = frame[j].upload_result
                     \/ result[j].keys = {"error"} /\ result[j].error \in DownstreamErrors
                     \/ /\ "refresh_worker" \in result[j].keys
                        /\ resolver_calls[j] # <<>>

C16_Witness ==
    \E j \in active :
        /\ frame[j].reachable = "false"
        /\ pc[j] = "done"
        /\ IsSuccessResult(result[j])
        /\ ImageUploads(j) # <<>>

\* position of a request in the pipeline
Stage(op) ==
    CASE op = "GET /" -> 1
      [] op = "POST /upload/image" -> 2
      [] op = "POST /prompt" -> 3
      [] OTHER -> 4

\* the images of a validated input, <<>> when it has none
InputImages(j) ==
    IF DecodedInput(j).images.t = "list" THEN DecodedInput(j).images.items ELSE <<>>

\* C17: the requests of a job follow the pipeline order probe, upload,
\* submission, history; the uploads are the images of the input in input
\* order, each at most once; the workflow is submitted at most once and only
\* when every image has been uploaded; history is fetched only under the
\* prompt id a submission returned; the upload collaborator is called at most
\* once and only after a ready history record.
C17_PipelineOrder ==
    \A j \in active :
        LET ups == ImageUploads(j)
            subs == Submissions(j)
            fetches == HistoryFetches(j)
        IN  /\ \A k \in 1..(Len(log[j]) - 1) :
                  Stage(log[j][k].op) <= Stage(log[j][k + 1].op)
            /\ Len(ups) <= Len(InputImages(j))
            /\ \A k \in DOMAIN ups : ups[k].arg = InputImages(j)[k].name
            /\ Len(subs) <= 1
            /\ subs # <<>> =>
                  /\ Len(ups) = Len(InputImages(j))
                  /\ \A k \in DOMAIN ups : ups[k].cls \in {"200", "500"}
            /\ fetches # <<>> =>
                  /\ Len(subs) = 1
                  /\ subs[1].cls \in PromptIds
                  /\ \A k \in DOMAIN fetches : fetches[k].arg = subs[1].cls
            /\ Len(collab_calls[j]) <= 1
            /\ collab_calls[j] # <<>> =>
                  (fetches # <<>> /\ Last(fetches).cls = "ready")

C17_Witness ==
    \E j \in active :
        /\ pc[j] = "done"
        /\ IsSuccessResult(result[j])
        /\ Len(Probes(j)) = 2
        /\ Len(ImageUploads(j)) = 2
        /\ Len(HistoryFetches(j)) = 2
        /\ collab_calls[j] # <<>>

Terminated(j) == pc[j] \in {"done", "fault"}

\* C18: every invocation terminates, by a result or a fault, and on the way
\* issues at most COMFY_API_AVAILABLE_MAX_RETRIES probe GETs, one upload per
\* image, one submission and COMFY_POLLING_MAX_RETRIES history fetches,
\* whatever the backend answers.
C18_JobTerminates ==
    /\ <>(\A j \in active : Terminated(j))
    /\ [](\A j \in active :
            /\ Len(Probes(j)) <= COMFY_API_AVAILABLE_MAX_RETRIES
            /\ Len(ImageUploads(j)) <= Len(InputImages(j))
            /\ Len(Submissions(j)) <= 1
            /\ Len(HistoryFetches(j)) <= COMFY_POLLING_MAX_RETRIES
            /\ Terminated(j) => (result[j] # NoResult) # (raised[j] # ""))

C18_Witness ==
    \E j \in active :
        /\ pc[j] = "done"
        /\ Len(Probes(j)) = COMFY_API_AVAILABLE_MAX_RETRIES
        /\ Len(ImageUploads(j)) = MaxImages
        /\ Len(Submissions(j)) = 1
        /\ COMFY_POLLING_MAX_RETRIES = MaxPollRetries
        /\ Len(HistoryFetches(j)) = MaxPollRetries

\* k is the first image whose payload base64 cannot decode, all images
\* before it being objects with a decodable payload
FirstUndecodable(items, k) ==
    /\ k \in DOMAIN items
    /\ items[k].t = "dict" /\ ~items[k].b64ok
    /\ \A m \in 1..(k - 1) : items[m].t = "dict" /\ items[m].b64ok

\* C19: when the k-th image is the first whose base64 payload does not
\* decode, at most the k-1 images before it are ever uploaded and the
\* workflow is never submitted; the upload stage is left only by a fault, with
\* no result; and when that fault is the decode failure, exactly the k-1
\* images before the k-th have been uploaded.
C19_DecodeFailureIsFatal ==
    \A j \in active :
        /\ \A k \in DOMAIN InputImages(j) :
            (validate_input(job_input[j]).kind = "ok"
                /\ FirstUndecodable(InputImages(j), k)) =>
                /\ Len(ImageUploads(j)) <= k - 1
                /\ Submissions(j) = <<>>
                /\ ~UploadReturned(j)
                /\ pc[j] \in {"validate", "check_server", "upload_images", "fault"}
                /\ pc[j] = "fault" =>
                      /\ result[j] = NoResult
                      /\ raised[j] \in {"binascii.Error", "RequestException"}
                      /\ raised[j] = "RequestException" => Last(log[j]).cls = "fault"
                      /\ raised[j] = "binascii.Error" =>
                            /\ Len(ImageUploads(j)) = k - 1
                            /\ \A m \in 1..(k - 1) :
                                  /\ ImageUploads(j)[m].arg = InputImages(j)[m].name
                                  /\ ImageUploads(j)[m].cls \in {"200", "500"}
        /\ raised[j] = "binascii.Error" =>
              \E k \in DOMAIN InputImages(j) : FirstUndecodable(InputImages(j), k)

C19_Witness ==
    \E j \in active :
        /\ raised[j] = "binascii.Error"
        /\ Len(InputImages(j)) = 2
        /\ Len(ImageUploads(j)) = 1
        /\ pc[j] = "fault"

\* everything one invocation of handler() owns
JobState(j) ==
    <<pc[j], frame[j], result[j], raised[j], log[j], resolver_calls[j], collab_calls[j]>>

\* C20: in every interleaving of two invocations, a job fetches history only
\* under the prompt id its own submission returned, hands the resolver only
\* the outputs stored under that id in the record it fetched last, calls the
\* collaborator with its own job id, counts only its own not-ready answers,
\* and no step of one job changes anything the other job owns or the
\* configuration.
C20_JobsIndependent ==
    /\ [](\A j \in active :
            LET subs == Submissions(j)
                fetches == HistoryFetches(j)
                pid == frame[j].prompt_id
            IN  /\ fetches # <<>> =>
                      /\ Len(subs) = 1
                      /\ pid = subs[1].cls
                      /\ \A k \in DOMAIN fetches : fetches[k].arg = subs[1].cls
                /\ resolver_calls[j] # <<>> =>
                      resolver_calls[j] =
                          <<[outputs |-> frame[j].history.rec[pid].outputs,
                             job_id |-> JobId(j)]>>
                /\ \A k \in DOMAIN collab_calls[j] : collab_calls[j][k].job_id = JobId(j)
                /\ frame[j].retries =
                      Len(SelectSeq(fetches, LAMBDA r : r.cls = "not ready"))
                /\ (pc[j] = "done" /\ IsSuccessResult(result[j])) =>
                      result[j].message[2] = JobId(j))
    /\ [][/\ COMFY_POLLING_MAX_RETRIES' = COMFY_POLLING_MAX_RETRIES
          /\ \A i, j \in active :
                (i # j /\ JobState(i)' # JobState(i)) => JobState(j)' = JobState(j)]_vars

C20_Witness ==
    /\ active = Jobs
    /\ \A j \in Jobs : pc[j] = "done" /\ IsSuccessResult(result[j])
    /\ frame[1].prompt_id # frame[2].prompt_id
    /\ \A j \in Jobs : frame[j].history.rec[OtherPrompt(frame[j].prompt_id)].present
    /\ resolver_calls[1][1].outputs # resolver_calls[2][1].outputs

====
